---- MODULE Spec2Model ----
(***************************************************************************)
(* Model of the book API: the in-memory store books_data (src/routes.py)  *)
(* of Book records (src/models/book.py) and the six request handlers.     *)
(*                                                                         *)
(* Spec      requests handled one at a time, from the 7-book store.        *)
(* SpecDrain clients that only DELETE and POST, over every id of the       *)
(*           initial store, so that the store can be emptied.              *)
(* SpecConc  two or more handler threads sharing books_data, interleaved   *)
(*           between get_next_book_id and append, and between              *)
(*           find_book_by_id and remove.                                   *)
(***************************************************************************)
EXTENDS Integers, Sequences, FiniteSets

VARIABLES
    books_data,   \* routes.py:9 the shared list of Book objects
    prev,         \* books_data as it was when the last request arrived
    req,          \* the last request handled
    resp,         \* its response: the JSON payload and the status code
    gone,         \* ids deleted with 200 and not assigned by a create since
    dels,         \* the successful deletes since the last successful create
    n,            \* requests handled so far
    pc,           \* SpecConc: where each handler thread stands
    loc,          \* SpecConc: each thread's local variable (new_book / book)
    acked,        \* SpecConc: <<thread, id>> of every create that returned 201
    cn            \* SpecConc: requests started so far

vars == <<books_data, prev, req, resp, gone, dels, n, pc, loc, acked, cn>>

seqVars == <<prev, req, resp, gone, dels, n>>
concVars == <<pc, loc, acked, cn>>

\* ------------------------------------------------------------------ bounds

MaxRequests == 4
MaxDrainRequests == 8
NumThreads == 2
MaxConcRequests == 3

\* ------------------------------------------------------- JSON / Python values
\* A value is tagged with its type: Python keeps None, str and int apart, and
\* the handlers test truthiness and call str methods on what the body gave.
\* A str is a tuple of characters, each a one-character string; the two
\* accented letters of the initial data are named.

None == <<"none">>

PyStr(s) == <<"str", s>>

PyInt(i) == <<"int", i>>

IsStr(v) == v[1] = "str"

\* Python truthiness: None, "" and 0 are falsy.
Truthy(v) ==
    CASE v[1] = "none" -> FALSE
      [] v[1] = "str" -> v[2] # <<>>
      [] v[1] = "int" -> v[2] # 0

\* request.get_json(): a JSON object, or None for the JSON text null.
Obj(r) == <<"object", r>>

IsObject(d) == d[1] = "object"

\* 'k' in data
HasKey(d, k) == k \in DOMAIN d[2]

\* data['k']
DictItem(d, k) == d[2][k]

\* data.get('k')
DictGet(d, k) == IF HasKey(d, k) THEN DictItem(d, k) ELSE None

\* ---------------------------------------------------------------- str methods

UpperChars ==
    <<"A", "B", "C", "D", "E", "F", "G", "H", "I", "J", "K", "L", "M",
      "N", "O", "P", "Q", "R", "S", "T", "U", "V", "W", "X", "Y", "Z">>

LowerChars ==
    <<"a", "b", "c", "d", "e", "f", "g", "h", "i", "j", "k", "l", "m",
      "n", "o", "p", "q", "r", "s", "t", "u", "v", "w", "x", "y", "z">>

\* The lower-case letter of each upper-case one.
LowerOf ==
    [c \in {UpperChars[i] : i \in 1..Len(UpperChars)} |->
        LowerChars[CHOOSE i \in 1..Len(UpperChars) : UpperChars[i] = c]]

\* Every other character of the model (digits, punctuation, whitespace,
\* lower-case letters) is its own lower case.
LowerChar(c) == IF c \in DOMAIN LowerOf THEN LowerOf[c] ELSE c

\* str.lower()
Lower(s) == [i \in 1..Len(s) |-> LowerChar(s[i])]

Whitespace == {" ", "\t", "\n", "\r"}

RECURSIVE LStrip(_)
LStrip(s) ==
    IF s # <<>> /\ Head(s) \in Whitespace THEN LStrip(Tail(s)) ELSE s

RECURSIVE RStrip(_)
RStrip(s) ==
    IF s # <<>> /\ s[Len(s)] \in Whitespace
    THEN RStrip(SubSeq(s, 1, Len(s) - 1))
    ELSE s

\* str.strip()
Strip(s) == RStrip(LStrip(s))

\* q in s, for two strs
Contains(q, s) ==
    \E i \in 0..(Len(s) - Len(q)) : SubSeq(s, i + 1, i + Len(q)) = q

\* ------------------------------------------------------------------- Book

Book(id, title, author, language, isbn, published_year, genre) ==
    [id |-> id, title |-> title, author |-> author, language |-> language,
     isbn |-> isbn, published_year |-> published_year, genre |-> genre]

to_dict(book) ==
    [id |-> book.id, title |-> book.title, author |-> book.author,
     language |-> book.language, isbn |-> book.isbn,
     published_year |-> book.published_year, genre |-> book.genre]

Book1 ==
    Book(1,
         PyStr(<<"T", "o", " ", "K", "i", "l", "l", " ", "a", " ", "M", "o", "c", "k", "i", "n", "g", "b", "i", "r", "d">>),
         PyStr(<<"H", "a", "r", "p", "e", "r", " ", "L", "e", "e">>),
         PyStr(<<"E", "n", "g", "l", "i", "s", "h">>),
         PyStr(<<"9", "7", "8", "-", "0", "-", "0", "6", "-", "1", "1", "2", "0", "0", "8", "-", "4">>),
         PyInt(1960),
         PyStr(<<"F", "i", "c", "t", "i", "o", "n">>))

Book2 ==
    Book(2,
         PyStr(<<"1", "9", "8", "4">>),
         PyStr(<<"G", "e", "o", "r", "g", "e", " ", "O", "r", "w", "e", "l", "l">>),
         PyStr(<<"E", "n", "g", "l", "i", "s", "h">>),
         PyStr(<<"9", "7", "8", "-", "0", "-", "4", "5", "2", "-", "2", "8", "4", "2", "3", "-", "4">>),
         PyInt(1949),
         PyStr(<<"D", "y", "s", "t", "o", "p", "i", "a", "n", " ", "F", "i", "c", "t", "i", "o", "n">>))

Book3 ==
    Book(3,
         PyStr(<<"P", "r", "i", "d", "e", " ", "a", "n", "d", " ", "P", "r", "e", "j", "u", "d", "i", "c", "e">>),
         PyStr(<<"J", "a", "n", "e", " ", "A", "u", "s", "t", "e", "n">>),
         PyStr(<<"E", "n", "g", "l", "i", "s", "h">>),
         PyStr(<<"9", "7", "8", "-", "0", "-", "1", "4", "-", "1", "4", "3", "9", "5", "1", "-", "8">>),
         PyInt(1813),
         PyStr(<<"R", "o", "m", "a", "n", "c", "e">>))

Book4 ==
    Book(4,
         PyStr(<<"T", "h", "e", " ", "G", "r", "e", "a", "t", " ", "G", "a", "t", "s", "b", "y">>),
         PyStr(<<"F", ".", " ", "S", "c", "o", "t", "t", " ", "F", "i", "t", "z", "g", "e", "r", "a", "l", "d">>),
         PyStr(<<"E", "n", "g", "l", "i", "s", "h">>),
         PyStr(<<"9", "7", "8", "-", "0", "-", "7", "4", "3", "2", "-", "7", "3", "5", "6", "-", "5">>),
         PyInt(1925),
         PyStr(<<"F", "i", "c", "t", "i", "o", "n">>))

Book5 ==
    Book(5,
         PyStr(<<"O", "n", "e", " ", "H", "u", "n", "d", "r", "e", "d", " ", "Y", "e", "a", "r", "s", " ", "o", "f", " ", "S", "o", "l", "i", "t", "u", "d", "e">>),
         PyStr(<<"G", "a", "b", "r", "i", "e", "l", " ", "G", "a", "r", "c", "i_acute", "a", " ", "M", "a_acute", "r", "q", "u", "e", "z">>),
         PyStr(<<"S", "p", "a", "n", "i", "s", "h">>),
         PyStr(<<"9", "7", "8", "-", "0", "-", "0", "6", "-", "0", "8", "8", "3", "2", "8", "-", "7">>),
         PyInt(1967),
         PyStr(<<"M", "a", "g", "i", "c", "a", "l", " ", "R", "e", "a", "l", "i", "s", "m">>))

Book6 ==
    Book(6,
         PyStr(<<"T", "h", "e", " ", "C", "a", "t", "c", "h", "e", "r", " ", "i", "n", " ", "t", "h", "e", " ", "R", "y", "e">>),
         PyStr(<<"J", ".", "D", ".", " ", "S", "a", "l", "i", "n", "g", "e", "r">>),
         PyStr(<<"E", "n", "g", "l", "i", "s", "h">>),
         PyStr(<<"9", "7", "8", "-", "0", "-", "3", "1", "6", "-", "7", "6", "9", "4", "8", "-", "0">>),
         PyInt(1951),
         PyStr(<<"F", "i", "c", "t", "i", "o", "n">>))

Book7 ==
    Book(7,
         PyStr(<<"D", "o", "n", " ", "Q", "u", "i", "x", "o", "t", "e">>),
         PyStr(<<"M", "i", "g", "u", "e", "l", " ", "d", "e", " ", "C", "e", "r", "v", "a", "n", "t", "e", "s">>),
         PyStr(<<"S", "p", "a", "n", "i", "s", "h">>),
         PyStr(<<"9", "7", "8", "-", "0", "-", "0", "6", "-", "0", "9", "3", "4", "3", "4", "-", "4">>),
         PyInt(1605),
         PyStr(<<"A", "d", "v", "e", "n", "t", "u", "r", "e">>))

InitialBooks == <<Book1, Book2, Book3, Book4, Book5, Book6, Book7>>

\* ------------------------------------------------------------ store helpers

Ids(store) == {store[i].id : i \in 1..Len(store)}

MaxOf(S) == CHOOSE m \in S : \A x \in S : x <= m

\* Mutant of list_append: list.insert(0, book).
list_append_front(store, book) == <<book>> \o store

\* list.append
list_append(store, book) == Append(store, book)

\* The index of the first element equal to x (dataclass equality compares
\* every field), 0 when there is none.
list_index(store, x) ==
    IF \E i \in 1..Len(store) : store[i] = x
    THEN CHOOSE i \in 1..Len(store) :
             store[i] = x /\ \A j \in 1..(i - 1) : store[j] # x
    ELSE 0

\* Mutant of list_remove: del store[x.id - 1], the id taken for the place.
list_remove_at_id(store, x) ==
    IF x.id \in 1..Len(store)
    THEN SubSeq(store, 1, x.id - 1) \o SubSeq(store, x.id + 1, Len(store))
    ELSE store

\* list.remove(x), for an x that is in the list
list_remove(store, x) ==
    LET k == list_index(store, x)
    IN  SubSeq(store, 1, k - 1) \o SubSeq(store, k + 1, Len(store))

\* Mutant of find_book_by_id: books_data[book_id - 1], the id taken for the
\* place.
find_book_by_place(store, book_id) ==
    IF book_id \in 1..Len(store) THEN book_id ELSE 0

\* find_book_by_id: the first book with that id. The handler holds a reference
\* to the object in the list, modelled by its index; 0 is None.
find_book_by_id(store, book_id) ==
    IF \E i \in 1..Len(store) : store[i].id = book_id
    THEN CHOOSE i \in 1..Len(store) :
             store[i].id = book_id /\ \A j \in 1..(i - 1) : store[j].id # book_id
    ELSE 0

\* Mutant of get_next_book_id: len(books_data) + 1.
get_next_book_id_count(store) == Len(store) + 1

get_next_book_id(store) ==
    IF store # <<>> THEN MaxOf(Ids(store)) + 1 ELSE 1

\* --------------------------------------------------------- handler results
\* A handler's outcome: the store it leaves and the response it returns. A
\* message is a tuple of its literal parts and the values formatted into it.

Result(store, response) == [store |-> store, resp |-> response]

NotFoundMsg(book_id) == <<"Book with ID ", book_id, " not found">>

ErrorResp(code, message) ==
    [code |-> code, status |-> "error", message |-> message]

\* get_all_books
get_all_books(store) ==
    Result(store,
           [code |-> 200, status |-> "success",
            data |-> [i \in 1..Len(store) |-> to_dict(store[i])],
            total |-> Len(store)])

\* get_book_by_id
get_book_by_id(store, book_id) ==
    LET book == find_book_by_id(store, book_id)
    IN  IF book # 0
        THEN Result(store, [code |-> 200, status |-> "success",
                            data |-> to_dict(store[book])])
        ELSE Result(store, ErrorResp(404, NotFoundMsg(book_id)))

required_fields == <<"title", "author", "language">>

\* Mutant of missing_fields: `field not in data`, presence for truthiness.
missing_fields_absent(data) ==
    SelectSeq(required_fields, LAMBDA field : ~HasKey(data, field))

\* The required fields for which `not data.get(field)` holds, in the order
\* the loop visits them; the loop returns at the first.
missing_fields(data) ==
    SelectSeq(required_fields, LAMBDA field : ~Truthy(DictGet(data, field)))

\* new_book = Book(id=get_next_book_id(), title=data['title'], ...)
new_book(store, data) ==
    Book(get_next_book_id(store),
         DictItem(data, "title"),
         DictItem(data, "author"),
         DictItem(data, "language"),
         DictGet(data, "isbn"),
         DictGet(data, "published_year"),
         DictGet(data, "genre"))

CreatedResp(book) ==
    [code |-> 201, status |-> "success",
     message |-> <<"Book created successfully">>,
     data |-> to_dict(book)]

\* create_book; data.get on None raises, caught as a 500.
create_book(store, data) ==
    IF ~IsObject(data)
    THEN Result(store, ErrorResp(500, <<"Failed to create book">>))
    ELSE IF missing_fields(data) # <<>>
    THEN Result(store,
                ErrorResp(400, <<"Missing required field: ",
                                 Head(missing_fields(data))>>))
    ELSE Result(list_append(store, new_book(store, data)),
                CreatedResp(new_book(store, data)))

\* Mutant of update_field: `if data.get('k'):`, truthiness for presence.
update_field_truthy(book, data, k) ==
    IF Truthy(DictGet(data, k)) THEN DictItem(data, k) ELSE book[k]

\* if 'k' in data: book.k = data['k']
update_field(book, data, k) ==
    IF HasKey(data, k) THEN DictItem(data, k) ELSE book[k]

\* update_book; `'title' in None` raises before any field is assigned.
update_book(store, book_id, data) ==
    LET book == find_book_by_id(store, book_id)
    IN  IF book = 0
        THEN Result(store, ErrorResp(404, NotFoundMsg(book_id)))
        ELSE IF ~IsObject(data)
        THEN Result(store, ErrorResp(500, <<"Failed to update book">>))
        ELSE LET updated == Book(store[book].id,
                                 update_field(store[book], data, "title"),
                                 update_field(store[book], data, "author"),
                                 update_field(store[book], data, "language"),
                                 update_field(store[book], data, "isbn"),
                                 update_field(store[book], data, "published_year"),
                                 update_field(store[book], data, "genre"))
             IN  Result([store EXCEPT ![book] = updated],
                        [code |-> 200, status |-> "success",
                         message |-> <<"Book updated successfully">>,
                         data |-> to_dict(updated)])

\* delete_book
delete_book(store, book_id) ==
    LET book == find_book_by_id(store, book_id)
    IN  IF book = 0
        THEN Result(store, ErrorResp(404, NotFoundMsg(book_id)))
        ELSE Result(list_remove(store, store[book]),
                    [code |-> 200, status |-> "success",
                     message |-> <<"Book with ID ", book_id,
                                   " deleted successfully">>])

\* request.args.get('q', '')
args_get(args, default) == IF args.present THEN args.q ELSE default

\* Mutant of normalize_query: the strip() left out.
normalize_query_unstripped(args) == Lower(args_get(args, <<>>))

\* request.args.get('q', '').lower().strip()
normalize_query(args) == Strip(Lower(args_get(args, <<>>)))

\* query in v.lower(), for a str v
in_field(query, v) == Contains(query, Lower(v[2]))

\* The `or` chain of the scan raises AttributeError at the first operand it
\* evaluates whose field is not a str (None has no lower()).
book_raises(book, query) ==
    \/ ~IsStr(book.title)
    \/ /\ ~in_field(query, book.title)
       /\ \/ ~IsStr(book.author)
          \/ /\ ~in_field(query, book.author)
             /\ ~IsStr(book.language)

book_matches(book, query) ==
    \/ in_field(query, book.title)
    \/ in_field(query, book.author)
    \/ in_field(query, book.language)

\* search_book
search_book(store, args) ==
    LET query == normalize_query(args)
    IN  IF query = <<>>
        THEN Result(store,
                    ErrorResp(400, <<"Search query parameter 'q' is required">>))
        ELSE IF \E i \in 1..Len(store) : book_raises(store[i], query)
        THEN Result(store, ErrorResp(500, <<"Failed to search books">>))
        ELSE LET matching_books ==
                     SelectSeq(store, LAMBDA book : book_matches(book, query))
             IN  Result(store,
                        [code |-> 200, status |-> "success",
                         data |-> [i \in 1..Len(matching_books) |->
                                       to_dict(matching_books[i])],
                         total |-> Len(matching_books),
                         query |-> query])

\* ------------------------------------------------------------ the requests
\* What clients send: ids that are in the store, that join it and that never
\* do; bodies that pass and fail create's validation in each way, that
\* overwrite with null and empty values, that carry an 'id' key, and the JSON
\* text null; queries that are missing, blank, and matching in another case.

ReqIds == {6, 7, 8, 99}

ValidBody ==
    Obj([title |-> PyStr(<<"X">>), author |-> PyStr(<<"Y">>),
         language |-> PyStr(<<"E", "n", "g", "l", "i", "s", "h">>)])

TitleOnlyBody == Obj([title |-> PyStr(<<"X">>)])

NoLanguageBody ==
    Obj([title |-> PyStr(<<"X">>), author |-> PyStr(<<"Y">>),
         language |-> PyStr(<<>>)])

OverwriteBody ==
    Obj([id |-> PyInt(1), title |-> None, author |-> PyStr(<<>>),
         isbn |-> None, published_year |-> PyInt(2020)])

NullBody == None

Bodies == {ValidBody, TitleOnlyBody, NoLanguageBody, OverwriteBody, NullBody}

NoQuery == [present |-> FALSE]

Query(q) == [present |-> TRUE, q |-> q]

Queries ==
    {NoQuery, Query(<<>>), Query(<<" ", "\t">>),
     Query(<<"S", "P", "A", "N", "I", "S", "H", " ">>), Query(<<"x">>)}

\* ------------------------------------------------- one request at a time

Init ==
    /\ books_data = InitialBooks
    /\ prev = InitialBooks
    /\ req = [op |-> "none"]
    /\ resp = [code |-> 0]
    /\ gone = {}
    /\ dels = {}
    /\ n = 0
    /\ pc = [t \in 1..NumThreads |-> "idle"]
    /\ loc = [t \in 1..NumThreads |-> None]
    /\ acked = {}
    /\ cn = 0

\* A request handled: the store it leaves, its response, and the record of
\* the request and of the store it found.
Handled(r, out) ==
    /\ books_data' = out.store
    /\ resp' = out.resp
    /\ prev' = books_data
    /\ req' = r
    /\ n' = n + 1
    /\ UNCHANGED concVars

\* Which deleted ids no create has been assigned since, and for each delete
\* since the last successful create: whether its id was the maximum then,
\* and whether another delete came later.
Tracked(r, out) ==
    /\ gone' =
           IF r.op = "delete" /\ out.resp.code = 200 THEN gone \cup {r.id}
           ELSE IF r.op = "create" /\ out.resp.code = 201
           THEN gone \ {out.resp.data.id}
           ELSE gone
    /\ dels' =
           IF r.op = "delete" /\ out.resp.code = 200
           THEN {[e EXCEPT !.later = TRUE] : e \in dels}
                \cup {[id |-> r.id,
                       wasMax |-> r.id = MaxOf(Ids(books_data)),
                       later |-> FALSE]}
           ELSE IF r.op = "create" /\ out.resp.code = 201 THEN {}
           ELSE dels

Request(r, out) == Handled(r, out) /\ Tracked(r, out)

GetAllBooks ==
    /\ n < MaxRequests
    /\ Request([op |-> "list"], get_all_books(books_data))

GetBookById ==
    /\ n < MaxRequests
    /\ \E book_id \in ReqIds :
           Request([op |-> "get", id |-> book_id],
                   get_book_by_id(books_data, book_id))

CreateBook ==
    /\ n < MaxRequests
    /\ \E data \in Bodies :
           Request([op |-> "create", data |-> data],
                   create_book(books_data, data))

UpdateBook ==
    /\ n < MaxRequests
    /\ \E book_id \in ReqIds, data \in Bodies :
           Request([op |-> "update", id |-> book_id, data |-> data],
                   update_book(books_data, book_id, data))

DeleteBook ==
    /\ n < MaxRequests
    /\ \E book_id \in ReqIds :
           Request([op |-> "delete", id |-> book_id],
                   delete_book(books_data, book_id))

SearchBook ==
    /\ n < MaxRequests
    /\ \E args \in Queries :
           Request([op |-> "search", args |-> args],
                   search_book(books_data, args))

Next ==
    \/ GetAllBooks
    \/ GetBookById
    \/ CreateBook
    \/ UpdateBook
    \/ DeleteBook
    \/ SearchBook

Spec == Init /\ [][Next]_vars

\* ------------------------------------------- clients that DELETE and POST
\* The same handlers, with deletes over every id of the initial store: eight
\* requests empty the store and create into it. The bookkeeping of deleted
\* ids is not kept here.

DrainIds == {1, 2, 3, 4, 5, 6, 7}

DrainBodies == {ValidBody, TitleOnlyBody}

DrainDelete ==
    /\ n < MaxDrainRequests
    /\ \E book_id \in DrainIds :
           Handled([op |-> "delete", id |-> book_id],
                   delete_book(books_data, book_id))
    /\ UNCHANGED <<gone, dels>>

DrainCreate ==
    /\ n < MaxDrainRequests
    /\ \E data \in DrainBodies :
           Handled([op |-> "create", data |-> data],
                   create_book(books_data, data))
    /\ UNCHANGED <<gone, dels>>

NextDrain ==
    \/ DrainDelete
    \/ DrainCreate

SpecDrain == Init /\ [][NextDrain]_vars

\* ------------------------------------------------------ handler threads
\* The handlers take no lock (routes.py holds none), so a thread serving
\* create_book can be preempted between get_next_book_id() and
\* books_data.append(), and one serving delete_book between
\* find_book_by_id() and books_data.remove().

Threads == 1..NumThreads

ConcIds == {7, 8, 99}

ConcBodies == {ValidBody, TitleOnlyBody}

\* create_book up to the construction of new_book (lines 67-87)
ConcCreateBegin(t) ==
    /\ pc[t] = "idle"
    /\ cn < MaxConcRequests
    /\ \E data \in ConcBodies :
           IF IsObject(data) /\ missing_fields(data) = <<>>
           THEN /\ loc' = [loc EXCEPT ![t] = new_book(books_data, data)]
                /\ pc' = [pc EXCEPT ![t] = "create_append"]
           ELSE UNCHANGED <<loc, pc>>
    /\ cn' = cn + 1
    /\ UNCHANGED <<books_data, acked>>
    /\ UNCHANGED seqVars

\* books_data.append(new_book) and the 201 response (lines 89-95)
ConcCreateAppend(t) ==
    /\ pc[t] = "create_append"
    /\ books_data' = list_append(books_data, loc[t])
    /\ acked' = acked \cup {[thread |-> t, id |-> loc[t].id]}
    /\ pc' = [pc EXCEPT ![t] = "idle"]
    /\ loc' = [loc EXCEPT ![t] = None]
    /\ UNCHANGED cn
    /\ UNCHANGED seqVars

\* delete_book up to the 404 test (lines 146-151)
ConcDeleteBegin(t) ==
    /\ pc[t] = "idle"
    /\ cn < MaxConcRequests
    /\ \E book_id \in ConcIds :
           LET book == find_book_by_id(books_data, book_id)
           IN  IF book # 0
               THEN /\ loc' = [loc EXCEPT ![t] = books_data[book]]
                    /\ pc' = [pc EXCEPT ![t] = "delete_remove"]
               ELSE UNCHANGED <<loc, pc>>
    /\ cn' = cn + 1
    /\ UNCHANGED <<books_data, acked>>
    /\ UNCHANGED seqVars

\* books_data.remove(book) (line 153): ValueError, caught as a 500, when
\* another thread removed the book first.
ConcDeleteRemove(t) ==
    /\ pc[t] = "delete_remove"
    /\ IF list_index(books_data, loc[t]) # 0
       THEN /\ books_data' = list_remove(books_data, loc[t])
            /\ acked' = {a \in acked : a.id # loc[t].id}
       ELSE UNCHANGED <<books_data, acked>>
    /\ pc' = [pc EXCEPT ![t] = "idle"]
    /\ loc' = [loc EXCEPT ![t] = None]
    /\ UNCHANGED cn
    /\ UNCHANGED seqVars

NextConc ==
    \E t \in Threads :
        \/ ConcCreateBegin(t)
        \/ ConcCreateAppend(t)
        \/ ConcDeleteBegin(t)
        \/ ConcDeleteRemove(t)

SpecConc == Init /\ [][NextConc]_vars

\* ================================================================ claims

\* C1: no two books in books_data have the same id, in every state reached
\* from the 7-book store by create, update and delete requests handled one
\* at a time.
C1_UniqueIds ==
    \A i, j \in 1..Len(books_data) :
        i # j => books_data[i].id # books_data[j].id

\* C1's case: a create has succeeded after book 6 was deleted and after an
\* update whose body carried an 'id' key and a null title.
C1_Witness ==
    /\ req.op = "create"
    /\ resp.code = 201
    /\ 6 \in gone
    /\ \E i \in 1..Len(books_data) : books_data[i].title = None

\* The fields create requires, present and truthy in a JSON object body.
ValidCreate(data) ==
    /\ IsObject(data)
    /\ \A f \in {"title", "author", "language"} :
           HasKey(data, f) /\ Truthy(DictItem(data, f))

\* C2: a create whose title, author and language are present and non-empty
\* returns 201; the new id is the maximum id before the request plus one, or
\* 1 for an empty store; the new book is the last element, and the books
\* that were there keep their contents and order.
C2_CreateAppendsNextId ==
    (req.op = "create" /\ ValidCreate(req.data)) =>
        /\ resp.code = 201
        /\ IF prev = <<>>
           THEN resp.data.id = 1
           ELSE /\ resp.data.id - 1 \in Ids(prev)
                /\ \A x \in Ids(prev) : x < resp.data.id
        /\ Len(books_data) = Len(prev) + 1
        /\ to_dict(books_data[Len(books_data)]) = resp.data
        /\ resp.data.title = DictItem(req.data, "title")
        /\ resp.data.author = DictItem(req.data, "author")
        /\ resp.data.language = DictItem(req.data, "language")
        /\ SubSeq(books_data, 1, Len(prev)) = prev

\* C2's case: a valid create into the emptied store was assigned id 1.
C2_Witness ==
    /\ req.op = "create"
    /\ ValidCreate(req.data)
    /\ prev = <<>>
    /\ resp.code = 201
    /\ resp.data.id = 1

NonEmptyStr(v) == IsStr(v) /\ v[2] # <<>>

\* C3: every book in the store has a non-empty title, a non-empty author and
\* a non-empty language, also after an update whose body gives one of these
\* keys a null or empty value.
C3_RequiredFieldsNonEmpty ==
    \A i \in 1..Len(books_data) :
        /\ NonEmptyStr(books_data[i].title)
        /\ NonEmptyStr(books_data[i].author)
        /\ NonEmptyStr(books_data[i].language)

UpdatableFields ==
    {"title", "author", "language", "isbn", "published_year", "genre"}

\* The place of the book with this id in a store.
PlaceOf(store, book_id) ==
    CHOOSE i \in 1..Len(store) : store[i].id = book_id

\* C4: a successful update with a JSON object body sets exactly the fields
\* whose key is in the body to the body's value, null and empty included, and
\* leaves alone the absent fields, the id (whatever 'id' the body carries),
\* the book's place, the number of books and every other book.
C4_UpdateFrame ==
    (req.op = "update" /\ resp.code = 200 /\ IsObject(req.data)) =>
        LET k == PlaceOf(prev, req.id)
        IN  /\ Len(books_data) = Len(prev)
            /\ \A j \in 1..Len(prev) : j # k => books_data[j] = prev[j]
            /\ books_data[k].id = req.id
            /\ \A f \in UpdatableFields :
                   books_data[k][f] =
                       IF HasKey(req.data, f)
                       THEN DictItem(req.data, f)
                       ELSE prev[k][f]

\* C4's case: an update whose body has an 'id' key, a null title and an
\* empty author, and no language, has returned 200.
C4_Witness ==
    /\ req.op = "update"
    /\ resp.code = 200
    /\ req.data = OverwriteBody
    /\ books_data[PlaceOf(books_data, req.id)].title = None
    /\ books_data[PlaceOf(books_data, req.id)].language # None

\* After delete(d) returns 200 the store is the store before it without the
\* book with id d, in the same order.
C5_Removed ==
    (req.op = "delete" /\ resp.code = 200) =>
        /\ books_data = SelectSeq(prev, LAMBDA b : b.id # req.id)
        /\ Len(books_data) = Len(prev) - 1

\* A deleted id stays out of the store, of get-by-id and of the list until a
\* create is assigned it.
C5_Absent ==
    \A d \in gone :
        /\ d \notin Ids(books_data)
        /\ (req.op = "get" /\ req.id = d) => resp.code = 404
        /\ req.op = "list" =>
               \A i \in 1..Len(resp.data) : resp.data[i].id # d

IdSeq(store) == [i \in 1..Len(store) |-> store[i].id]

\* Ids 1..7, DELETE /6: 200 and ids 1,2,3,4,5,7; the next valid create gets 8.
C5_Scenario ==
    /\ (req = [op |-> "delete", id |-> 6] /\ IdSeq(prev) = <<1, 2, 3, 4, 5, 6, 7>>)
           => (resp.code = 200 /\ IdSeq(books_data) = <<1, 2, 3, 4, 5, 7>>)
    /\ (req.op = "create" /\ ValidCreate(req.data)
        /\ IdSeq(prev) = <<1, 2, 3, 4, 5, 7>>)
           => (resp.code = 201 /\ resp.data.id = 8)

\* This step is a create that returns 201.
CreateStep == n' = n + 1 /\ req'.op = "create" /\ resp'.code = 201

\* The create after delete(d), whatever was handled between them, is assigned
\* d only if d was the maximum id when it was deleted.
C5_ReuseOnlyIfMax ==
    CreateStep =>
        \A e \in dels : resp'.data.id = e.id => e.wasMax

\* The same, for a delete that no other delete follows before the create.
C5_ReuseOnlyIfMaxNoLaterDelete ==
    CreateStep =>
        \A e \in dels : (~e.later /\ resp'.data.id = e.id) => e.wasMax

\* C5 as stated: after delete(d) returns 200 the store is the one before
\* minus the book d, in order; d is not returned until a create is assigned
\* it; the next create is assigned d only if d was the maximum id before the
\* delete; the scenario delete 6, create gives ids 1,2,3,4,5,7 and then 8.
C5_DeleteThenCreate ==
    [][C5_Removed' /\ C5_Absent' /\ C5_Scenario' /\ C5_ReuseOnlyIfMax]_vars

\* C5 amended: as C5, with the next create assigned d only if d was the
\* maximum id before the delete, provided no other delete is handled between
\* delete(d) and that create.
C5_DeleteThenCreateNoLaterDelete ==
    [][C5_Removed' /\ C5_Absent' /\ C5_Scenario'
       /\ C5_ReuseOnlyIfMaxNoLaterDelete]_vars

\* C5's case: 6 was deleted from ids 1..7 and the next create was given 8.
C5_Witness ==
    /\ req.op = "create"
    /\ resp.code = 201
    /\ IdSeq(books_data) = <<1, 2, 3, 4, 5, 7, 8>>
    /\ 6 \in gone

\* C6: get-by-id, update and delete return 404 with 'Book with ID <id> not
\* found' exactly when no book in the store has the id, and then leave the
\* store as it was whatever the body; when a book has the id, get-by-id and
\* delete return 200. GET /99 on the initial store is a 404.
C6_NotFound ==
    (req.op \in {"get", "update", "delete"}) =>
        /\ resp.code = 404 <=> req.id \notin Ids(prev)
        /\ resp.code = 404 =>
               /\ resp.status = "error"
               /\ resp.message = <<"Book with ID ", req.id, " not found">>
               /\ books_data = prev
        /\ (req.id \in Ids(prev) /\ req.op \in {"get", "delete"}) =>
               resp.code = 200

\* C6's case: GET /99 on the initial store has returned 404.
C6_Witness ==
    /\ req = [op |-> "get", id |-> 99]
    /\ prev = InitialBooks
    /\ resp.code = 404

\* A required field the body lacks or gives a null, empty or zero value.
Lacks(data, f) == ~HasKey(data, f) \/ ~Truthy(DictItem(data, f))

\* The first field a body lacks, in the order title, author, language.
FirstLacking(data) ==
    IF Lacks(data, "title") THEN "title"
    ELSE IF Lacks(data, "author") THEN "author"
    ELSE "language"

\* A create whose JSON object body lacks a required field returns 400 naming
\* the first one, and leaves the store as it was.
C7_Rejected ==
    (req.op = "create" /\ IsObject(req.data) /\ ~ValidCreate(req.data)) =>
        /\ resp.code = 400
        /\ resp.status = "error"
        /\ resp.message =
               <<"Missing required field: ", FirstLacking(req.data)>>
        /\ books_data = prev

\* A create that succeeds right after a rejected one returns what it would
\* have returned in place of the rejected one.
C7_NextCreateUnaffected ==
    (req.op = "create" /\ resp.code = 400 /\ CreateStep) =>
        resp' = create_book(prev, req'.data).resp

\* C7: a create whose JSON object body lacks, or has an empty or null value
\* for, any of title, author, language returns 400 with 'Missing required
\* field: <f>', f the first such field ({title:'X'} names author); the store
\* is unchanged and the next valid create gets the id it would have got.
C7_CreateRejected ==
    [][C7_Rejected' /\ C7_NextCreateUnaffected]_vars

\* C7's case: {title:'X'} was rejected naming author, in a store that earlier
\* requests had changed.
C7_Witness ==
    /\ req = [op |-> "create", data |-> TitleOnlyBody]
    /\ resp.code = 400
    /\ resp.message = <<"Missing required field: ", "author">>
    /\ books_data # InitialBooks

\* Whether q, trimmed and lower-cased by the claim's own reading, is in the
\* lower-cased title, author or language of a book.
ClaimMatch(book, q) ==
    \E f \in {"title", "author", "language"} :
        IsStr(book[f]) /\ Contains(q, Lower(book[f][2]))

\* C8: a search whose q is non-empty after trimming returns 200 with exactly
\* the books whose lower-cased title, author or language contains the
\* lower-cased trimmed q, in store order, their number as total and the
\* normalized q as query; it never changes the store.
C8_SearchResult ==
    (req.op = "search" /\ req.args.present
     /\ \E i \in 1..Len(req.args.q) : req.args.q[i] \notin Whitespace) =>
        LET q == Strip(Lower(req.args.q))
            hits == SelectSeq(prev, LAMBDA b : ClaimMatch(b, q))
        IN  /\ resp.code = 200
            /\ resp.data = [i \in 1..Len(hits) |-> to_dict(hits[i])]
            /\ resp.total = Len(hits)
            /\ resp.query = q
            /\ books_data = prev

\* A q that is missing, empty or made of whitespace only.
BlankQuery(args) ==
    ~args.present \/ \A i \in 1..Len(args.q) : args.q[i] \in Whitespace

\* C9: a search whose q is missing, empty or whitespace-only returns 400 with
\* status 'error' and "Search query parameter 'q' is required" in every store
\* state, without scanning or changing the store.
C9_BlankQueryRejected ==
    (req.op = "search" /\ BlankQuery(req.args)) =>
        /\ resp.code = 400
        /\ resp.status = "error"
        /\ resp.message = <<"Search query parameter 'q' is required">>
        /\ books_data = prev

\* C9's case: a whitespace-only q was rejected in a store that holds a book
\* whose title is null, which a scan would have raised on.
C9_Witness ==
    /\ req.op = "search"
    /\ req.args.present
    /\ req.args.q # <<>>
    /\ resp.code = 400
    /\ \E i \in 1..Len(books_data) : books_data[i].title = None

\* C10: with requests handled concurrently on the shared store, no two books
\* ever have the same id and each create that returned 201 with id k leaves
\* a book of its own with id k in the store until it is deleted.
C10_ConcurrentCreatesDistinct ==
    /\ \A i, j \in 1..Len(books_data) :
           i # j => books_data[i].id # books_data[j].id
    /\ \A k \in {a.id : a \in acked} :
           Cardinality({a \in acked : a.id = k})
               <= Cardinality({i \in 1..Len(books_data) : books_data[i].id = k})

====
